---- MODULE Spec2Model ----
(***************************************************************************)
(* Model of @dcgw/excalibur-text: the line wrapper (src/wrap.ts), and the   *)
(* Text graphic with its TextRenderer and render cache.                    *)
(*                                                                         *)
(* Strings are sequences of one-character strings.  Every length (advance  *)
(* widths, bounding box extents, wrapWidth, lineHeight, fontSize) is an    *)
(* integer number of HALF pixels, so that Math.trunc has fractions to cut. *)
(***************************************************************************)
EXTENDS Integers, Sequences, FiniteSets, TLC

VARIABLES
    options,    \* the WrapTextOptions of the current / next call of wrapText
    wrapped,    \* the WrappedText returned by the last call (the fold's seed before any call)
    groups,     \* per paragraph, the lines the concatMap callback returned in the last call
    appended,   \* the line handed to the last direct call of appendWrappedTextLine
    pc,         \* "ready": wrapText not called yet; "done": wrapped is a wrapText result;
                \* "fold": wrapped is built by direct appendWrappedTextLine calls;
                \* "text": a Text graphic is being driven
    node,       \* the public fields of the Text; object-valued fields hold references
    heap,       \* the Color and Vector objects, by reference
    renderer,   \* Text.renderer: the TextRenderer instance, its snapshot and its cache
    frame,      \* what the last call of Text._drawImage did
    changes     \* number of attribute changes made to the Text so far

wvars == <<options, wrapped, groups, appended, pc>>

rvars == <<node, heap, renderer, frame, changes>>

vars == <<options, wrapped, groups, appended, pc, node, heap, renderer, frame, changes>>

-----------------------------------------------------------------------------
(* Bounds *)

MaxLen == 5         \* longest text drawn as an input
MaxAppend == 3      \* most lines appended by direct appendWrappedTextLine calls
MaxChanges == 1     \* most attribute changes made to a Text

-----------------------------------------------------------------------------
(* Inputs *)

Chars == {"a", "b", " ", "\n"}

Infinity == -1      \* stands for the IEEE value Infinity (Text's default wrapWidth)

WrapWidths == {0, 14, 20, Infinity}

LineHeights == {2, 24}

FontSize == 20

Strings(n) == UNION {[1..k -> Chars] : k \in 0..n}

Contexts == [extended : BOOLEAN]

AllOptions ==
    [context : Contexts, text : Strings(MaxLen), fontSize : {FontSize},
     lineHeight : LineHeights, wrapWidth : WrapWidths]

-----------------------------------------------------------------------------
(* Numbers *)

Max(a, b) == IF a >= b THEN a ELSE b

\* a <= b and a > b of JavaScript numbers where b may be Infinity (a is finite)
NumLe(a, b) == IF b = Infinity THEN TRUE ELSE a <= b
NumGt(a, b) == IF b = Infinity THEN FALSE ELSE a > b

\* Math.trunc on half pixels: drop the fraction, towards zero
Trunc(h) == IF h >= 0 THEN (h \div 2) * 2 ELSE -(((-h) \div 2) * 2)

Px(n) == 2 * n

-----------------------------------------------------------------------------
(* The canvas: CanvasRenderingContext2D.measureText, for left aligned text  *)
(* on the alphabetic baseline.  Whitespace has an advance and no ink.       *)

Whitespace == {" ", "\n"}     \* what /\s/u matches in Chars

Advance(c) == CASE c = "a" -> 5 [] c = "b" -> 7 [] OTHER -> 4
Ascent(c) == CASE c = "a" -> 9 [] c = "b" -> 15 [] OTHER -> 0
Descent(c) == CASE c = "a" -> 0 [] c = "b" -> 7 [] OTHER -> 0

RECURSIVE SumAdvance(_)
SumAdvance(s) == IF s = <<>> THEN 0 ELSE Advance(Head(s)) + SumAdvance(Tail(s))

RECURSIVE MaxOver(_)
MaxOver(S) == IF S = {} THEN 0
              ELSE LET x == CHOOSE x \in S : TRUE IN Max(x, MaxOver(S \ {x}))

measureText(context, text) ==
    LET ink == {i \in 1..Len(text) : text[i] \notin Whitespace}
        first == CHOOSE i \in ink : \A j \in ink : i <= j
        last == CHOOSE i \in ink : \A j \in ink : j <= i
        width == SumAdvance(text)
    IN  IF ~context.extended
        THEN [width |-> width, extended |-> FALSE,
              actualBoundingBoxLeft |-> 0, actualBoundingBoxRight |-> 0,
              actualBoundingBoxAscent |-> 0, actualBoundingBoxDescent |-> 0]
        ELSE IF ink = {}
        THEN [width |-> width, extended |-> TRUE,
              actualBoundingBoxLeft |-> 0, actualBoundingBoxRight |-> 0,
              actualBoundingBoxAscent |-> 0, actualBoundingBoxDescent |-> 0]
        ELSE [width |-> width, extended |-> TRUE,
              actualBoundingBoxLeft |-> -SumAdvance(SubSeq(text, 1, first - 1)),
              actualBoundingBoxRight |-> SumAdvance(SubSeq(text, 1, last)),
              actualBoundingBoxAscent |-> MaxOver({Ascent(text[i]) : i \in ink}),
              actualBoundingBoxDescent |-> MaxOver({Descent(text[i]) : i \in ink})]

-----------------------------------------------------------------------------
(* src/wrap.ts *)

measureLine(o) ==
    LET metrics == measureText(o.context, o.text)
    IN  IF ~metrics.extended
        THEN [left |-> metrics.width + o.fontSize * 2,
              right |-> metrics.width + o.fontSize * 2,
              top |-> o.lineHeight + o.fontSize * 2,
              bottom |-> o.lineHeight + o.fontSize * 2,
              width |-> metrics.width]
        ELSE [left |-> Trunc(metrics.actualBoundingBoxLeft) + Px(1),
              right |-> Trunc(metrics.actualBoundingBoxRight) + Px(1),
              top |-> Trunc(metrics.actualBoundingBoxAscent) + Px(1),
              bottom |-> Trunc(metrics.actualBoundingBoxDescent) + Px(1),
              width |-> metrics.width]

\* appendWrappedTextLine with left assigned from the line instead of Math.max
appendWrappedTextLineOverwrite(wrappedText, line, lineHeight) ==
    [lines |-> Append(wrappedText.lines, line.text),
     left |-> line.metrics.left,
     right |-> Max(wrappedText.right, line.metrics.right),
     top |-> Max(wrappedText.top,
                 line.metrics.top - lineHeight * Len(wrappedText.lines)),
     bottom |-> Max(wrappedText.bottom,
                    line.metrics.bottom + lineHeight * Len(wrappedText.lines))]

\* appendWrappedTextLine with the line's bottom not offset by its index
appendWrappedTextLineNoOffset(wrappedText, line, lineHeight) ==
    [lines |-> Append(wrappedText.lines, line.text),
     left |-> Max(wrappedText.left, line.metrics.left),
     right |-> Max(wrappedText.right, line.metrics.right),
     top |-> Max(wrappedText.top,
                 line.metrics.top - lineHeight * Len(wrappedText.lines)),
     bottom |-> Max(wrappedText.bottom, line.metrics.bottom)]

\* appendWrappedTextLine counting the line's index from 1
appendWrappedTextLineOffByOne(wrappedText, line, lineHeight) ==
    [lines |-> Append(wrappedText.lines, line.text),
     left |-> Max(wrappedText.left, line.metrics.left),
     right |-> Max(wrappedText.right, line.metrics.right),
     top |-> Max(wrappedText.top,
                 line.metrics.top - lineHeight * (Len(wrappedText.lines) + 1)),
     bottom |-> Max(wrappedText.bottom,
                    line.metrics.bottom + lineHeight * (Len(wrappedText.lines) + 1))]

appendWrappedTextLine(wrappedText, line, lineHeight) ==
    [lines |-> Append(wrappedText.lines, line.text),
     left |-> Max(wrappedText.left, line.metrics.left),
     right |-> Max(wrappedText.right, line.metrics.right),
     top |-> Max(wrappedText.top,
                 line.metrics.top - lineHeight * Len(wrappedText.lines)),
     bottom |-> Max(wrappedText.bottom,
                    line.metrics.bottom + lineHeight * Len(wrappedText.lines))]

\* String.prototype.split on a one-character separator class
RECURSIVE Split(_, _)
Split(s, seps) ==
    IF \A i \in 1..Len(s) : s[i] \notin seps
    THEN <<s>>
    ELSE LET i == CHOOSE i \in 1..Len(s) :
                      s[i] \in seps /\ \A j \in 1..(i - 1) : s[j] \notin seps
         IN  <<SubSeq(s, 1, i - 1)>> \o Split(SubSeq(s, i + 1, Len(s)), seps)

ZeroMetrics == [left |-> 0, right |-> 0, top |-> 0, bottom |-> 0, width |-> 0]

first == [line |-> <<>>, metrics |-> ZeroMetrics, newLine |-> FALSE]

last == [line |-> <<>>, metrics |-> ZeroMetrics, newLine |-> TRUE]

\* scanStep breaking the line already when the candidate is exactly wrapWidth wide
scanStepGe(o, accumulator, word) ==
    LET line == IF accumulator.line = <<>> THEN word
                ELSE accumulator.line \o <<" ">> \o word
        metrics == measureLine([o EXCEPT !.text = line])
    IN  IF o.wrapWidth # Infinity /\ metrics.width >= o.wrapWidth /\ line # word
        THEN [line |-> word, metrics |-> measureLine([o EXCEPT !.text = word]),
              newLine |-> TRUE]
        ELSE [line |-> line, metrics |-> metrics, newLine |-> FALSE]

\* scanStep whose guard against breaking asks whether the word fits on its own
scanStepWordFits(o, accumulator, word) ==
    LET line == IF accumulator.line = <<>> THEN word
                ELSE accumulator.line \o <<" ">> \o word
        metrics == measureLine([o EXCEPT !.text = line])
        alone == measureLine([o EXCEPT !.text = word])
    IN  IF NumGt(metrics.width, o.wrapWidth) /\ NumLe(alone.width, o.wrapWidth)
        THEN [line |-> word, metrics |-> alone, newLine |-> TRUE]
        ELSE [line |-> line, metrics |-> metrics, newLine |-> FALSE]

\* scanStep breaking the line when the line so far, not the candidate, is too wide
scanStepChecksAccumulator(o, accumulator, word) ==
    LET line == IF accumulator.line = <<>> THEN word
                ELSE accumulator.line \o <<" ">> \o word
        metrics == measureLine([o EXCEPT !.text = line])
    IN  IF NumGt(accumulator.metrics.width, o.wrapWidth) /\ line # word
        THEN [line |-> word, metrics |-> measureLine([o EXCEPT !.text = word]),
              newLine |-> TRUE]
        ELSE [line |-> line, metrics |-> metrics, newLine |-> FALSE]

\* the callback of scanFn
scanStep(o, accumulator, word) ==
    LET line == IF accumulator.line = <<>> THEN word
                ELSE accumulator.line \o <<" ">> \o word
        metrics == measureLine([o EXCEPT !.text = line])
    IN  IF NumGt(metrics.width, o.wrapWidth) /\ line # word
        THEN [line |-> word, metrics |-> measureLine([o EXCEPT !.text = word]),
              newLine |-> TRUE]
        ELSE [line |-> line, metrics |-> metrics, newLine |-> FALSE]

\* scanFn(f, initial): the accumulator after each element
RECURSIVE scanFn(_, _, _)
scanFn(o, accumulator, words) ==
    IF words = <<>> THEN <<>>
    ELSE LET next == scanStep(o, accumulator, Head(words))
         IN  <<next>> \o scanFn(o, next, Tail(words))

\* pushFn that leaves the sequence alone
pushFnDropped(value, s) == s

pushFn(value, s) == Append(s, value)

pairwise(s) == [i \in 1..(Len(s) - 1) |-> <<s[i], s[i + 1]>>]

\* closedLines taking the second accumulator of each pair
RECURSIVE closedLinesSecond(_)
closedLinesSecond(pairs) ==
    IF pairs = <<>> THEN <<>>
    ELSE LET a == Head(pairs)[1]
             b == Head(pairs)[2]
         IN  (IF b.newLine THEN <<[line |-> b.line, metrics |-> b.metrics]>> ELSE <<>>)
             \o closedLinesSecond(Tail(pairs))

\* filterFn(([_, b]) => b.newLine) then mapFn(([{line, metrics}]) => ({line, metrics}))
RECURSIVE closedLines(_)
closedLines(pairs) ==
    IF pairs = <<>> THEN <<>>
    ELSE LET a == Head(pairs)[1]
             b == Head(pairs)[2]
         IN  (IF b.newLine THEN <<[line |-> a.line, metrics |-> a.metrics]>> ELSE <<>>)
             \o closedLines(Tail(pairs))

\* line.split("") in place of line.split(/\s/u)
splitWordsByChar(line) == [i \in 1..Len(line) |-> <<line[i]>>]

\* line.split(/\s/u)
splitWords(line) == Split(line, Whitespace)

\* wrapParagraph without the branch for a paragraph that fits
wrapParagraphAlwaysPacks(o, p) ==
    closedLines(pairwise(pushFn(last, scanFn(o, first, splitWords(p.line)))))

\* wrapParagraph taking a paragraph as fitting only when narrower than wrapWidth
wrapParagraphStrict(o, p) ==
    IF o.wrapWidth = Infinity \/ p.metrics.width < o.wrapWidth
    THEN <<[line |-> p.line, metrics |-> p.metrics]>>
    ELSE closedLines(pairwise(pushFn(last, scanFn(o, first, splitWords(p.line)))))

\* the callback of concatMapFn: the lines of one measured paragraph
wrapParagraph(o, p) ==
    IF NumLe(p.metrics.width, o.wrapWidth)
    THEN <<[line |-> p.line, metrics |-> p.metrics]>>
    ELSE closedLines(pairwise(pushFn(last, scanFn(o, first, splitWords(p.line)))))

measuredParagraphs(o) ==
    LET paragraphs == Split(o.text, {"\n"})
    IN  [i \in 1..Len(paragraphs) |->
            [line |-> paragraphs[i],
             metrics |-> measureLine([o EXCEPT !.text = paragraphs[i]])]]

\* concatMapFn putting each paragraph's lines before those collected so far
RECURSIVE concatMapFnPrepend(_, _)
concatMapFnPrepend(o, ps) ==
    IF ps = <<>> THEN <<>>
    ELSE concatMapFnPrepend(o, Tail(ps)) \o wrapParagraph(o, Head(ps))

RECURSIVE concatMapFn(_, _)
concatMapFn(o, ps) ==
    IF ps = <<>> THEN <<>>
    ELSE wrapParagraph(o, Head(ps)) \o concatMapFn(o, Tail(ps))

EmptyWrapped == [lines |-> <<>>, left |-> 0, right |-> 0, top |-> 0, bottom |-> 0]

RECURSIVE foldFn(_, _, _)
foldFn(wrappedText, ls, lineHeight) ==
    IF ls = <<>> THEN wrappedText
    ELSE foldFn(appendWrappedTextLine(wrappedText,
                                      [text |-> Head(ls).line, metrics |-> Head(ls).metrics],
                                      lineHeight),
                Tail(ls), lineHeight)

wrapText(o) == foldFn(EmptyWrapped, concatMapFn(o, measuredParagraphs(o)), o.lineHeight)

\* the lines of each paragraph, as the concatMap callback returned them
paragraphLines(o) ==
    LET ps == measuredParagraphs(o)
    IN  [i \in 1..Len(ps) |->
            LET ls == wrapParagraph(o, ps[i]) IN [k \in 1..Len(ls) |-> ls[k].line]]

-----------------------------------------------------------------------------
(* The callers of src/wrap.ts *)

NoLine == [text |-> <<>>, metrics |-> ZeroMetrics, lineHeight |-> 0]

\* the value of node, renderer and frame where no Text exists or nothing was drawn yet
Absent == <<>>

NoText ==
    /\ node = Absent
    /\ heap = <<>>
    /\ renderer = Absent
    /\ frame = Absent
    /\ changes = 0

Init ==
    /\ options \in AllOptions
    /\ wrapped = EmptyWrapped
    /\ groups = <<>>
    /\ appended = NoLine
    /\ pc = "ready"
    /\ NoText

\* wrapText(options)
WrapText ==
    /\ pc = "ready"
    /\ wrapped' = wrapText(options)
    /\ groups' = paragraphLines(options)
    /\ pc' = "done"
    /\ UNCHANGED <<options, appended>>
    /\ UNCHANGED rvars

RECURSIVE Join(_, _)
Join(ls, sep) ==
    IF ls = <<>> THEN <<>>
    ELSE IF Len(ls) = 1 THEN ls[1]
    ELSE ls[1] \o <<sep>> \o Join(Tail(ls), sep)

\* wrapText again, on the lines it returned, at the same or a larger wrapWidth
Rewrap ==
    /\ pc = "done"
    /\ \E w \in WrapWidths :
        /\ NumLe(options.wrapWidth, w) \/ w = Infinity
        /\ options.wrapWidth # Infinity \/ w = Infinity
        /\ options' = [options EXCEPT !.text = Join(wrapped.lines, "\n"), !.wrapWidth = w]
    /\ wrapped' = wrapText(options')
    /\ groups' = paragraphLines(options')
    /\ pc' = "done"
    /\ UNCHANGED appended
    /\ UNCHANGED rvars

Next == WrapText \/ Rewrap

Spec == Init /\ [][Next]_vars

-----------------------------------------------------------------------------
(* A caller that drives appendWrappedTextLine directly, from the fold's seed *)

\* the options of a Text constructed with no arguments
DefaultOptions ==
    [context |-> [extended |-> TRUE], text |-> <<>>, fontSize |-> FontSize,
     lineHeight |-> FontSize, wrapWidth |-> Infinity]

AnyLineTexts == {<<>>, <<"a", " ", "b">>}

AnyMetrics ==
    [left : {-2, 6}, right : {-2, 6}, top : {-2, 6}, bottom : {-2, 6}, width : {0}]

AnyLineHeights == {-4, 0, 4}

InitFold ==
    /\ options = DefaultOptions
    /\ wrapped = EmptyWrapped
    /\ groups = <<>>
    /\ appended = NoLine
    /\ pc = "fold"
    /\ NoText

\* appendWrappedTextLine({wrappedText: wrapped, line: {text, metrics}, lineHeight})
AppendLine ==
    /\ pc = "fold"
    /\ Len(wrapped.lines) < MaxAppend
    /\ \E text \in AnyLineTexts, metrics \in AnyMetrics, lineHeight \in AnyLineHeights :
        /\ wrapped' = appendWrappedTextLine(wrapped, [text |-> text, metrics |-> metrics],
                                            lineHeight)
        /\ appended' = [text |-> text, metrics |-> metrics, lineHeight |-> lineHeight]
    /\ UNCHANGED <<options, groups, pc>>
    /\ UNCHANGED rvars

NextFold == AppendLine

SpecFold == InitFold /\ [][NextFold]_vars

-----------------------------------------------------------------------------
(* Vocabulary of the properties: paragraphs and words read off the text by  *)
(* position, independently of Split                                        *)

TextWidth(o, s) == measureText(o.context, s).width

Newlines(text) == {i \in 1..Len(text) : text[i] = "\n"}

\* position of the k-th newline; 0 before the first paragraph, Len + 1 after the last
NewlineAt(text, k) ==
    IF k = 0 THEN 0
    ELSE IF k > Cardinality(Newlines(text)) THEN Len(text) + 1
    ELSE CHOOSE i \in Newlines(text) :
            Cardinality({j \in Newlines(text) : j < i}) = k - 1

ParagraphAt(text, k) ==
    SubSeq(text, NewlineAt(text, k - 1) + 1, NewlineAt(text, k) - 1)

NonWs(s) == SelectSeq(s, LAMBDA c : c \notin Whitespace)

\* the maximal whitespace-free runs of s, as a set
WordsOf(s) ==
    {SubSeq(s, i, j) : <<i, j>> \in
        {ij \in (1..Len(s)) \X (1..Len(s)) :
            /\ ij[1] <= ij[2]
            /\ \A k \in ij[1]..ij[2] : s[k] \notin Whitespace
            /\ (ij[1] = 1 \/ s[ij[1] - 1] \in Whitespace)
            /\ (ij[2] = Len(s) \/ s[ij[2] + 1] \in Whitespace)}}

RECURSIVE ConcatAll(_)
ConcatAll(ss) == IF ss = <<>> THEN <<>> ELSE Head(ss) \o ConcatAll(Tail(ss))

RECURSIVE SumLen(_, _)
SumLen(ss, k) == IF k = 0 THEN 0 ELSE Len(ss[k]) + SumLen(ss, k - 1)

Done == pc = "done"

-----------------------------------------------------------------------------
\* C1: with wrapWidth = Infinity wrapText returns one line per newline-delimited
\* paragraph: as many lines as the text has newlines plus one, line k being the
\* text between the (k-1)-th and the k-th newline, unchanged.
C1_UnboundedOneLinePerParagraph ==
    (Done /\ options.wrapWidth = Infinity) =>
        /\ Len(wrapped.lines) = Cardinality(Newlines(options.text)) + 1
        /\ \A k \in 1..Len(wrapped.lines) :
            wrapped.lines[k] = ParagraphAt(options.text, k)

C1_Witness ==
    /\ Done
    /\ options.wrapWidth = Infinity
    /\ Len(wrapped.lines) = 3
    /\ \E k \in 1..3 : TextWidth(options, wrapped.lines[k]) > 20
    /\ \E k \in 1..3 : wrapped.lines[k] = <<>>

\* the greedy packer of the specification, as a loop over the words
RECURSIVE GreedyPack(_, _, _, _)
GreedyPack(o, words, candidate, closed) ==
    IF words = <<>> THEN Append(closed, candidate)
    ELSE LET word == Head(words)
             extended == IF candidate = <<>> THEN word
                         ELSE candidate \o <<" ">> \o word
         IN  IF NumGt(TextWidth(o, extended), o.wrapWidth) /\ candidate # <<>>
             THEN GreedyPack(o, Tail(words), word, Append(closed, candidate))
             ELSE GreedyPack(o, Tail(words), extended, closed)

\* C2: a paragraph wider than wrapWidth is emitted as the lines of the greedy
\* packer run over its whitespace-split words; three words of which the first
\* two fit together and all three do not give the lines "w1 w2" and "w3".
C2_GreedyPacker ==
    Done =>
        \A i \in 1..Len(groups) :
            LET p == ParagraphAt(options.text, i)
                words == splitWords(p)
            IN  NumGt(TextWidth(options, p), options.wrapWidth) =>
                    /\ groups[i] = GreedyPack(options, words, <<>>, <<>>)
                    /\ ( /\ Len(words) = 3
                         /\ \A k \in 1..3 : words[k] # <<>>
                         /\ NumLe(TextWidth(options, words[1] \o <<" ">> \o words[2]),
                                  options.wrapWidth) )
                       => groups[i] = <<words[1] \o <<" ">> \o words[2], words[3]>>

C2_Witness ==
    /\ Done
    /\ options.text = <<"a", " ", "b", " ", "a">>
    /\ options.wrapWidth = 20
    /\ wrapped.lines = <<<<"a", " ", "b">>, <<"a">>>>

\* C3: no line boundary falls inside a word: the lines carry the non-whitespace
\* characters of the text in order, every boundary between two consecutive lines
\* lies at a whitespace or newline character of the text, and every word of a
\* line is a whole word of the text.
C3_NoMidWordSplit ==
    Done =>
        LET lines == wrapped.lines
            text == options.text
            inked == [k \in 1..Len(lines) |-> NonWs(lines[k])]
        IN  /\ ConcatAll(inked) = NonWs(text)
            /\ \A k \in 1..(Len(lines) - 1) :
                \E i \in 1..Len(text) :
                    /\ text[i] \in Whitespace
                    /\ Len(NonWs(SubSeq(text, 1, i - 1))) = SumLen(inked, k)
            /\ \A k \in 1..Len(lines) : WordsOf(lines[k]) \subseteq WordsOf(text)

C3_Witness ==
    /\ Done
    /\ options.text = <<"a", "b", " ", "b", "a">>
    /\ options.wrapWidth = 14
    /\ wrapped.lines = <<<<"a", "b">>, <<"b", "a">>>>

\* C4: a word wider than wrapWidth is kept whole on a line of its own: it is a
\* line of the result, a line that contains it contains nothing else, and a text
\* that is only such a word gives exactly that one line.
C4_OverlongWordAlone ==
    Done =>
        LET lines == wrapped.lines
            text == options.text
            Wide(w) == NumGt(TextWidth(options, w), options.wrapWidth)
        IN  /\ \A w \in WordsOf(text) :
                Wide(w) => \E k \in 1..Len(lines) : lines[k] = w
            /\ \A k \in 1..Len(lines) : \A w \in WordsOf(lines[k]) :
                Wide(w) => lines[k] = w
            /\ (text # <<>> /\ NonWs(text) = text /\ Wide(text)) => lines = <<text>>

C4_Witness ==
    /\ Done
    /\ options.text = <<"a", " ", "b", "b", "b">>
    /\ options.wrapWidth = 20
    /\ wrapped.lines = <<<<"a">>, <<"b", "b", "b">>>>

\* C5: wrapText never returns zero lines: every paragraph, the empty one and the
\* empty text included, contributes at least one line, and an empty paragraph
\* contributes exactly one empty line.
C5_NeverZeroLines ==
    Done =>
        /\ Len(wrapped.lines) >= 1
        /\ Len(groups) = Cardinality(Newlines(options.text)) + 1
        /\ Len(wrapped.lines) = SumLen(groups, Len(groups))
        /\ \A i \in 1..Len(groups) :
            /\ Len(groups[i]) >= 1
            /\ ParagraphAt(options.text, i) = <<>> => groups[i] = << <<>> >>

C5_Witness ==
    /\ Done
    /\ options.text = <<"b", " ", "b", "\n", "\n">>
    /\ options.wrapWidth = 0
    /\ wrapped.lines = <<<<"b">>, <<"b">>, <<>>, <<>>>>

AllFit(o) ==
    \A k \in 1..(Cardinality(Newlines(o.text)) + 1) :
        NumLe(TextWidth(o, ParagraphAt(o.text, k)), o.wrapWidth)

Paragraphs(text) ==
    [k \in 1..(Cardinality(Newlines(text)) + 1) |-> ParagraphAt(text, k)]

C6_FitState ==
    (Done /\ AllFit(options)) => wrapped.lines = Paragraphs(options.text)

C6_FitStep ==
    (Done /\ AllFit(options) /\ Done') => wrapped'.lines = wrapped.lines

\* C6: when every paragraph of the text is at most wrapWidth wide, wrapText
\* returns the paragraphs unchanged, and wrapping the returned lines (joined by
\* newlines) again at the same or any larger wrapWidth returns the same lines.
C6_WrapIdempotent == [](C6_FitState) /\ [][C6_FitStep]_vars

C6_Witness ==
    /\ Done
    /\ AllFit(options)
    /\ options.wrapWidth = 20
    /\ wrapped.lines = <<<<"a", " ", "b">>, <<"b">>>>

\* the non-empty words of a sequence of lines, in reading order
RECURSIVE WordSeq(_)
WordSeq(ls) ==
    IF ls = <<>> THEN <<>>
    ELSE SelectSeq(Split(Head(ls), Whitespace), LAMBDA w : w # <<>>) \o WordSeq(Tail(ls))

SetMax(S) == CHOOSE x \in S : \A y \in S : y <= x

LineMetricsAt(k) == measureLine([options EXCEPT !.text = wrapped.lines[k]])

LineIndexes == 1..Len(wrapped.lines)

\* C8 as stated: the bounding box is the maximum over the lines alone
C8_Original ==
    Done =>
        /\ wrapped.left = SetMax({LineMetricsAt(k).left : k \in LineIndexes})
        /\ wrapped.right = SetMax({LineMetricsAt(k).right : k \in LineIndexes})
        /\ wrapped.top =
            SetMax({LineMetricsAt(k).top - (k - 1) * options.lineHeight : k \in LineIndexes})
        /\ wrapped.bottom =
            SetMax({LineMetricsAt(k).bottom + (k - 1) * options.lineHeight : k \in LineIndexes})

\* C8 (amended): the bounding box is the maximum over 0 and the lines: left and
\* right over the lines' left and right, top over line.top - lineIndex * lineHeight
\* and bottom over line.bottom + lineIndex * lineHeight, lineIndex counted from 0.
C8_BoundingBoxFold ==
    Done =>
        /\ wrapped.left = SetMax({0} \cup {LineMetricsAt(k).left : k \in LineIndexes})
        /\ wrapped.right = SetMax({0} \cup {LineMetricsAt(k).right : k \in LineIndexes})
        /\ wrapped.top =
            SetMax({0} \cup
                   {LineMetricsAt(k).top - (k - 1) * options.lineHeight : k \in LineIndexes})
        /\ wrapped.bottom =
            SetMax({0} \cup
                   {LineMetricsAt(k).bottom + (k - 1) * options.lineHeight : k \in LineIndexes})

C8_Witness ==
    /\ Done
    /\ options.context.extended
    /\ Len(wrapped.lines) = 2
    /\ wrapped.left = 0
    /\ \A k \in LineIndexes : LineMetricsAt(k).left < 0
    /\ wrapped.bottom > LineMetricsAt(2).bottom + options.lineHeight

\* C9: appendWrappedTextLine never decreases left, right, top or bottom, and
\* extends lines by exactly the appended line, at the end.
C9_MonotonicAppend ==
    [][ pc' = "fold" =>
            /\ wrapped'.left >= wrapped.left
            /\ wrapped'.right >= wrapped.right
            /\ wrapped'.top >= wrapped.top
            /\ wrapped'.bottom >= wrapped.bottom
            /\ wrapped'.lines = Append(wrapped.lines, appended'.text) ]_vars

C9_Witness ==
    /\ pc = "fold"
    /\ Len(wrapped.lines) = 3
    /\ appended.metrics.left < wrapped.left
    /\ appended.metrics.right < wrapped.right
    /\ appended.metrics.top - 2 * appended.lineHeight < wrapped.top
    /\ appended.metrics.bottom + 2 * appended.lineHeight < wrapped.bottom

TwoFittingParagraphs ==
    /\ Done
    /\ Cardinality(Newlines(options.text)) = 1
    /\ AllFit(options)

\* C10 as stated: the bottoms of the two lines and the line height add up
C10_Original ==
    TwoFittingParagraphs =>
        /\ wrapped.lines = <<ParagraphAt(options.text, 1), ParagraphAt(options.text, 2)>>
        /\ wrapped.bottom =
            LineMetricsAt(1).bottom + options.lineHeight + LineMetricsAt(2).bottom

\* C10 (amended): a text of two paragraphs that both fit gives the two
\* paragraphs as lines, and a bottom that is the largest of 0, bottom(line1)
\* and lineHeight + bottom(line2).
C10_TwoLineBottom ==
    TwoFittingParagraphs =>
        /\ wrapped.lines = <<ParagraphAt(options.text, 1), ParagraphAt(options.text, 2)>>
        /\ wrapped.bottom =
            Max(Max(0, LineMetricsAt(1).bottom),
                options.lineHeight + LineMetricsAt(2).bottom)

C10_Witness ==
    /\ TwoFittingParagraphs
    /\ options.context.extended
    /\ options.text = <<"a", "b", "\n", "a", "a">>
    /\ wrapped.bottom = LineMetricsAt(1).bottom
    /\ wrapped.bottom > options.lineHeight + LineMetricsAt(2).bottom

-----------------------------------------------------------------------------
(* excalibur: Color and Vector are mutable objects, compared by === as      *)
(* references; the enums are strings                                       *)

Black == [r |-> 0, g |-> 0, b |-> 0, a |-> 1]
Transparent == [r |-> 255, g |-> 255, b |-> 255, a |-> 0]
Red == [r |-> 255, g |-> 0, b |-> 0, a |-> 1]

ColorValues == {Black, Transparent, Red}

\* Color.prototype.toString
ColorToString(c) ==
    CASE c = Black -> "rgba(0, 0, 0, 1)"
      [] c = Transparent -> "rgba(255, 255, 255, 0)"
      [] c = Red -> "rgba(255, 0, 0, 1)"

VectorZero == [x |-> 0, y |-> 0]

VectorValues == {VectorZero, [x |-> 5, y |-> -3]}

Undefined == -2     \* stands for the value undefined of Text.lineHeight

\* Math.ceil on half pixels
Ceil(h) == IF h >= 0 THEN ((h + 1) \div 2) * 2 ELSE -(((-h) \div 2) * 2)

-----------------------------------------------------------------------------
(* src/unnamed/part_001 (style.ts) *)

lookupTextAlign(textAlign) ==
    CASE textAlign = "Left" -> "left"
      [] textAlign = "Right" -> "right"
      [] textAlign = "Center" -> "center"
      [] textAlign = "End" -> "end"
      [] textAlign = "Start" -> "start"

lookupBaseAlign(baseAlign) ==
    CASE baseAlign = "Alphabetic" -> "alphabetic"
      [] baseAlign = "Bottom" -> "bottom"
      [] baseAlign = "Hanging" -> "hanging"
      [] baseAlign = "Ideographic" -> "ideographic"
      [] baseAlign = "Middle" -> "middle"
      [] baseAlign = "Top" -> "top"

lookupFontStyle(fontStyle) ==
    CASE fontStyle = "Italic" -> "italic"
      [] fontStyle = "Normal" -> "normal"
      [] fontStyle = "Oblique" -> "oblique"

lookupFontWeight(bold) == IF bold THEN "bold" ELSE "normal"

-----------------------------------------------------------------------------
(* The Text graphic (src/wrap.ts, third revision) and its inputs *)

PrimitiveAttrs ==
    {"text", "fontFamily", "fontStyle", "bold", "fontSize", "textAlign", "baseAlign",
     "lineHeight", "wrapWidth", "outlineWidth", "shadowBlurRadius"}

ColorAttrs == {"color", "outlineColor", "shadowColor"}

ObjectAttrs == ColorAttrs \cup {"shadowOffset"}

\* the values an attribute is set to
AttrValues(attr) ==
    CASE attr = "text" -> {<<>>, <<"a", " ", "b">>}
      [] attr = "fontFamily" -> {"sans-serif", "serif"}
      [] attr = "fontStyle" -> {"Normal", "Italic"}
      [] attr = "bold" -> BOOLEAN
      [] attr = "fontSize" -> {FontSize, 24}
      [] attr = "textAlign" -> {"Left", "Center"}
      [] attr = "baseAlign" -> {"Alphabetic", "Top"}
      [] attr = "lineHeight" -> {Undefined, 30}
      [] attr = "wrapWidth" -> {Infinity, 14}
      [] attr = "outlineWidth" -> {0, 3}
      [] attr = "shadowBlurRadius" -> {0, 3}
      [] attr \in ColorAttrs -> ColorValues
      [] attr = "shadowOffset" -> VectorValues

\* the options a Text is constructed with; an option left out takes its default
ConstructorOptions ==
    {[text |-> <<>>, wrapWidth |-> Infinity, outlineWidth |-> 0,
      shadowColor |-> Transparent, shadowOffset |-> VectorZero, shadowBlurRadius |-> 0],
     [text |-> <<"a", " ", "b">>, wrapWidth |-> 14, outlineWidth |-> 3,
      shadowColor |-> Transparent, shadowOffset |-> [x |-> 5, y |-> -3],
      shadowBlurRadius |-> 3],
     [text |-> <<"b", "\n", "a">>, wrapWidth |-> Infinity, outlineWidth |-> 0,
      shadowColor |-> Black, shadowOffset |-> [x |-> 5, y |-> -3], shadowBlurRadius |-> 3],
     [text |-> <<"a", " ", "b">>, wrapWidth |-> 14, outlineWidth |-> 3,
      shadowColor |-> Red, shadowOffset |-> [x |-> 5, y |-> -3], shadowBlurRadius |-> 0]}

\* the objects a new Text refers to: color, outlineColor, shadowColor, shadowOffset
NewHeap(o) == <<Black, Transparent, o.shadowColor, o.shadowOffset>>

\* Text.constructor: the public fields
NewNode(o) ==
    [text |-> o.text, fontFamily |-> "sans-serif", fontStyle |-> "Normal", bold |-> FALSE,
     fontSize |-> FontSize, textAlign |-> "Left", baseAlign |-> "Alphabetic",
     lineHeight |-> Undefined, wrapWidth |-> o.wrapWidth,
     color |-> 1, outlineColor |-> 2, outlineWidth |-> o.outlineWidth,
     shadowColor |-> 3, shadowOffset |-> 4, shadowBlurRadius |-> o.shadowBlurRadius]

-----------------------------------------------------------------------------
(* src/unnamed/part_000 (renderer.ts, latest revision): TextRenderer *)

\* new TextRenderer(...): the snapshot of the fifteen attributes and an empty cache
NewTextRenderer(id, n) ==
    [id |-> id, cache |-> <<>>,
     text |-> n.text, fontFamily |-> n.fontFamily, fontStyle |-> n.fontStyle,
     bold |-> n.bold, fontSize |-> n.fontSize, textAlign |-> n.textAlign,
     baseAlign |-> n.baseAlign, lineHeight |-> n.lineHeight, wrapWidth |-> n.wrapWidth,
     color |-> n.color, outlineColor |-> n.outlineColor, outlineWidth |-> n.outlineWidth,
     shadowColor |-> n.shadowColor, shadowOffset |-> n.shadowOffset,
     shadowBlurRadius |-> n.shadowBlurRadius]

\* the fifteen === comparisons; object-valued attributes compare as references
sameAttributes(r, n) ==
    /\ n.text = r.text
    /\ n.fontFamily = r.fontFamily
    /\ n.fontStyle = r.fontStyle
    /\ n.bold = r.bold
    /\ n.fontSize = r.fontSize
    /\ n.textAlign = r.textAlign
    /\ n.baseAlign = r.baseAlign
    /\ n.lineHeight = r.lineHeight
    /\ n.wrapWidth = r.wrapWidth
    /\ n.color = r.color
    /\ n.outlineColor = r.outlineColor
    /\ n.outlineWidth = r.outlineWidth
    /\ n.shadowColor = r.shadowColor
    /\ n.shadowOffset = r.shadowOffset
    /\ n.shadowBlurRadius = r.shadowBlurRadius

updateIfRequired(r, n) ==
    IF sameAttributes(r, n) THEN r ELSE NewTextRenderer(r.id + 1, n)

\* setCanvasTextProperties that strokes with the outline color whatever the width
setCanvasTextPropertiesAlwaysOutline(r, h) ==
    [textAlign |-> lookupTextAlign(r.textAlign),
     textBaseline |-> lookupBaseAlign(r.baseAlign),
     font |-> <<lookupFontStyle(r.fontStyle), lookupFontWeight(r.bold), r.fontSize, "px",
                r.fontFamily>>,
     lineWidth |-> r.outlineWidth * 2,
     strokeStyle |-> ColorToString(h[r.outlineColor]),
     fillStyle |-> ColorToString(h[r.color])]

setCanvasTextProperties(r, h) ==
    [textAlign |-> lookupTextAlign(r.textAlign),
     textBaseline |-> lookupBaseAlign(r.baseAlign),
     font |-> <<lookupFontStyle(r.fontStyle), lookupFontWeight(r.bold), r.fontSize, "px",
                r.fontFamily>>,
     lineWidth |-> r.outlineWidth * 2,
     strokeStyle |-> IF r.outlineWidth = 0 THEN "transparent"
                     ELSE ColorToString(h[r.outlineColor]),
     fillStyle |-> ColorToString(h[r.color])]

\* the measuring context of a canvas of this platform
CanvasContext == [extended |-> TRUE]

\* the margins of the first revision (src/renderer.ts): twice the blur on every side
shadowMarginsFixed(r, h) ==
    [left |-> r.shadowBlurRadius * 2, top |-> r.shadowBlurRadius * 2,
     right |-> r.shadowBlurRadius * 2, bottom |-> r.shadowBlurRadius * 2]

\* the margins without the pixel added after Math.trunc
shadowMarginsTruncated(r, h) ==
    [left |-> Max(0, Trunc(r.shadowBlurRadius * 2 - h[r.shadowOffset].x)),
     top |-> Max(0, Trunc(r.shadowBlurRadius * 2 - h[r.shadowOffset].y)),
     right |-> Max(0, Trunc(r.shadowBlurRadius * 2 + h[r.shadowOffset].x)),
     bottom |-> Max(0, Trunc(r.shadowBlurRadius * 2 + h[r.shadowOffset].y))]

\* the direction-aware margins of the shadow composite
shadowMargins(r, h) ==
    [left |-> Max(0, Trunc(r.shadowBlurRadius * 2 - h[r.shadowOffset].x) + Px(1)),
     top |-> Max(0, Trunc(r.shadowBlurRadius * 2 - h[r.shadowOffset].y) + Px(1)),
     right |-> Max(0, Trunc(r.shadowBlurRadius * 2 + h[r.shadowOffset].x) + Px(1)),
     bottom |-> Max(0, Trunc(r.shadowBlurRadius * 2 + h[r.shadowOffset].y) + Px(1))]

\* the outline margin without Math.ceil
outlineMarginExact(r) == Max(0, r.outlineWidth)

\* the outline margin added on every side of the wrapped text
outlineMargin(r) == Max(0, Ceil(r.outlineWidth))

\* the canvas the text is stroked and filled on (canvas2), the text origin
\* translated to (left, top)
drawText(r, h, wrappedText, lineHeight, outline) ==
    LET left == wrappedText.left + outline
        right == wrappedText.right + outline
        top == wrappedText.top + outline
        bottom == wrappedText.bottom + outline
    IN  [width |-> left + right, height |-> top + bottom,
         translate |-> <<left, top>>,
         properties |-> setCanvasTextProperties(r, h),
         strokeText |-> [i \in 1..Len(wrappedText.lines) |->
                            <<wrappedText.lines[i], 0, (i - 1) * lineHeight>>],
         fillText |-> [i \in 1..Len(wrappedText.lines) |->
                            <<wrappedText.lines[i], 0, (i - 1) * lineHeight>>]]

\* the cache entry: the canvas of the text itself without a shadow, a second
\* canvas with the text composited under the shadow settings otherwise
cacheOf(r, h, layer, margins) ==
    LET left == layer.translate[1]
        right == layer.width - left
        top == layer.translate[2]
        bottom == layer.height - top
    IN  IF h[r.shadowColor].a = 0
        THEN [canvas |-> [width |-> layer.width, height |-> layer.height,
                          layer |-> layer, composite |-> <<>>],
              bounds |-> [left |-> -left, right |-> right, top |-> -top, bottom |-> bottom],
              surfaces |-> 1]
        ELSE [canvas |-> [width |-> left + margins.left + right + margins.right,
                          height |-> top + margins.top + bottom + margins.bottom,
                          layer |-> layer,
                          composite |-> <<[shadowBlur |-> r.shadowBlurRadius,
                                           shadowColor |-> ColorToString(h[r.shadowColor]),
                                           shadowOffsetX |-> h[r.shadowOffset].x,
                                           shadowOffsetY |-> h[r.shadowOffset].y,
                                           translate |-> <<margins.left, margins.top>>]>>],
              bounds |-> [left |-> -(left + margins.left), right |-> right + margins.right,
                          top |-> -(top + margins.top), bottom |-> bottom + margins.bottom],
              surfaces |-> 2]

\* this.lineHeight ?? this.fontSize
lineHeightOf(r) == IF r.lineHeight = Undefined THEN r.fontSize ELSE r.lineHeight

\* updateCache with both 2D contexts obtained: the cache entry it stores
updateCache(r, h) ==
    cacheOf(r, h,
            drawText(r, h,
                     wrapText([context |-> CanvasContext, text |-> r.text,
                               wrapWidth |-> r.wrapWidth, fontSize |-> r.fontSize,
                               lineHeight |-> lineHeightOf(r)]),
                     lineHeightOf(r), outlineMargin(r)),
            shadowMargins(r, h))

-----------------------------------------------------------------------------
(* A program that constructs a Text, changes its attributes and draws it *)

Positions == {<<0, 0>>, <<7, -4>>}

\* the attribute values of the Text, object-valued attributes read through
Resolve(n, h) ==
    [n EXCEPT !.color = h[n.color], !.outlineColor = h[n.outlineColor],
              !.shadowColor = h[n.shadowColor], !.shadowOffset = h[n.shadowOffset]]

InitText ==
    /\ options = DefaultOptions
    /\ wrapped = EmptyWrapped
    /\ groups = <<>>
    /\ appended = NoLine
    /\ pc = "text"
    /\ \E o \in ConstructorOptions :
        /\ node = NewNode(o)
        /\ heap = NewHeap(o)
        /\ renderer = NewTextRenderer(1, NewNode(o))
    /\ frame = Absent
    /\ changes = 0

\* notNull(canvas.getContext("2d")) throws in updateCache: context1 and context2
\* tell whether the first and the second canvas return a context
updateCacheThrows(r, h, context1, context2) ==
    r.cache = <<>> /\ (~context1 \/ (h[r.shadowColor].a # 0 /\ ~context2))

\* blitPosition taking bounds.left and bounds.top as distances, as the first revision did
blitPositionSubtract(cache, x, y) == <<x - cache.bounds.left, y - cache.bounds.top>>

\* where renderImage blits the cached canvas
blitPosition(cache, x, y) == <<x + cache.bounds.left, y + cache.bounds.top>>

\* renderImage assigning the cache before the second context is asked for
renderImageEarlyCache(r, h, context1, context2) ==
    IF r.cache = <<>> /\ context1
    THEN [r EXCEPT !.cache = <<updateCache(r, h)>>]
    ELSE r

\* the renderer after renderImage: its cache is assigned once, at the end of a
\* build that did not throw
renderImage(r, h, context1, context2) ==
    IF r.cache = <<>> /\ ~updateCacheThrows(r, h, context1, context2)
    THEN [r EXCEPT !.cache = <<updateCache(r, h)>>]
    ELSE r

\* a setter that rebuilds the bitmap at once
SetAttributeEager(attr, value) ==
    /\ pc = "text"
    /\ changes < MaxChanges
    /\ attr \in PrimitiveAttrs
    /\ value # node[attr]
    /\ node' = [node EXCEPT ![attr] = value]
    /\ changes' = changes + 1
    /\ renderer' = renderImage(updateIfRequired(renderer, node'), heap, TRUE, TRUE)
    /\ UNCHANGED <<heap, frame>>
    /\ UNCHANGED wvars

\* text.<attr> = value, for a primitive attribute
SetAttribute(attr, value) ==
    /\ pc = "text"
    /\ changes < MaxChanges
    /\ attr \in PrimitiveAttrs
    /\ value # node[attr]
    /\ node' = [node EXCEPT ![attr] = value]
    /\ changes' = changes + 1
    /\ UNCHANGED <<heap, renderer, frame>>
    /\ UNCHANGED wvars

\* text.<attr> = new Color(...) / new Vector(...): a new object, of any value
AssignObject(attr, value) ==
    /\ pc = "text"
    /\ changes < MaxChanges
    /\ attr \in ObjectAttrs
    /\ heap' = Append(heap, value)
    /\ node' = [node EXCEPT ![attr] = Len(heap) + 1]
    /\ changes' = changes + 1
    /\ UNCHANGED <<renderer, frame>>
    /\ UNCHANGED wvars

\* text.<attr>.<component> = ...: the object the attribute refers to changes value
MutateObject(attr, value) ==
    /\ pc = "text"
    /\ changes < MaxChanges
    /\ attr \in ObjectAttrs
    /\ value # heap[node[attr]]
    /\ heap' = [heap EXCEPT ![node[attr]] = value]
    /\ changes' = changes + 1
    /\ UNCHANGED <<node, renderer, frame>>
    /\ UNCHANGED wvars

\* Text._drawImage(ex, x, y)
DrawImage(x, y, context1, context2) ==
    /\ pc = "text"
    /\ renderer' = renderImage(updateIfRequired(renderer, node), heap, context1, context2)
    /\ LET r1 == updateIfRequired(renderer, node)
           build == r1.cache = <<>>
           throws == updateCacheThrows(r1, heap, context1, context2)
       IN  frame' =
                [x |-> x, y |-> y, threw |-> throws,
                 retry |-> IF frame = Absent THEN FALSE ELSE frame.threw,
                 drawImage |-> IF throws THEN <<>>
                               ELSE <<[image |-> renderer'.cache[1].canvas,
                                       x |-> blitPosition(renderer'.cache[1], x, y)[1],
                                       y |-> blitPosition(renderer'.cache[1], x, y)[2]]>>,
                 wrapTextCalls |-> IF build /\ context1 THEN 1 ELSE 0,
                 canvases |-> IF ~build THEN 0
                              ELSE IF context1 /\ heap[r1.shadowColor].a # 0 THEN 2 ELSE 1,
                 instance |-> renderer'.id,
                 attributes |-> Resolve(node, heap)]
    /\ UNCHANGED <<node, heap, changes>>
    /\ UNCHANGED wvars

NextText ==
    \/ \E attr \in PrimitiveAttrs : \E value \in AttrValues(attr) : SetAttribute(attr, value)
    \/ \E attr \in ObjectAttrs : \E value \in AttrValues(attr) : AssignObject(attr, value)
    \/ \E attr \in ObjectAttrs : \E value \in AttrValues(attr) : MutateObject(attr, value)
    \/ \E p \in Positions : \E context1, context2 \in BOOLEAN :
        DrawImage(p[1], p[2], context1, context2)

SpecText == InitText /\ [][NextText]_vars

-----------------------------------------------------------------------------
(* Vocabulary of the render properties *)

\* this step is a call of Text._drawImage that follows an earlier call
DrawnAgain == pc = "text" /\ changes' = changes /\ frame # Absent

Drawn == pc = "text" /\ frame # Absent /\ ~frame.threw

\* the last call of Text._drawImage built the bitmap it drew
Built == Drawn /\ frame.wrapTextCalls = 1

\* the cache entry a renderer builds for attributes of the given values
FreshCache(values) ==
    updateCache([NewTextRenderer(0, values) EXCEPT
                    !.color = 1, !.outlineColor = 2, !.shadowColor = 3, !.shadowOffset = 4],
                <<values.color, values.outlineColor, values.shadowColor, values.shadowOffset>>)

\* C11: of two renders with attributes of the same values, the second performs
\* no rebuild (no wrapText call, no new canvas, the same TextRenderer instance)
\* and both draw a bitmap of the same dimensions at the same offset.
C11_CacheStability ==
    [][ (DrawnAgain /\ ~frame.threw /\ ~frame'.threw
            /\ frame.attributes = Resolve(node, heap)) =>
        /\ frame'.wrapTextCalls = 0
        /\ frame'.canvases = 0
        /\ frame'.instance = frame.instance
        /\ frame'.drawImage[1].image.width = frame.drawImage[1].image.width
        /\ frame'.drawImage[1].image.height = frame.drawImage[1].image.height
        /\ frame'.x - frame'.drawImage[1].x = frame.x - frame.drawImage[1].x
        /\ frame'.y - frame'.drawImage[1].y = frame.y - frame.drawImage[1].y ]_vars

\* C12: a render after which any attribute has a value other than at the render
\* before rebuilds the bitmap.
C12_CacheInvalidation ==
    [][ (DrawnAgain /\ ~frame.threw /\ ~frame'.threw
            /\ frame.attributes # Resolve(node, heap)) =>
        frame'.wrapTextCalls = 1 ]_vars

\* C13: the renderer is kept exactly when the attributes have the values they
\* had at the render before, whatever objects carry them.
C13_ComparedByValue ==
    [][ DrawnAgain =>
        ((renderer'.id = renderer.id) <=> (frame.attributes = Resolve(node, heap))) ]_vars

\* C14: the bitmap handed to drawImage is the one built from the values the
\* attributes have at that render.
C14_NeverStale ==
    Drawn => frame.drawImage[1].image = FreshCache(frame.attributes).canvas

\* C15: changing an attribute lays out and rasterizes nothing: it leaves the
\* renderer, its cache and the engine alone; the cache changes only inside a
\* render, which calls wrapText at most once.
C15_LazyRebuild ==
    [][ pc = "text" =>
        /\ changes' # changes => (renderer' = renderer /\ frame' = frame)
        /\ changes' = changes =>
            /\ frame'.wrapTextCalls <= 1
            /\ (renderer'.cache # <<>> /\ renderer'.cache # renderer.cache) =>
                frame'.wrapTextCalls = 1 ]_vars

C15_Witness ==
    /\ pc = "text"
    /\ changes = 1
    /\ frame # Absent
    /\ renderer.cache # <<>>
    /\ renderer.text # node.text

\* the distance of the text origin from the left and top edge of a drawn bitmap
OriginIn(image) ==
    IF image.composite = <<>> THEN image.layer.translate
    ELSE <<image.layer.translate[1] + image.composite[1].translate[1],
           image.layer.translate[2] + image.composite[1].translate[2]>>

\* C16: a render that does not throw calls drawImage exactly once, with the
\* cached bitmap, at the position that puts the text origin of the bitmap at
\* (x, y); a render that throws does not call it.
C16_BlitAtOrigin ==
    (pc = "text" /\ frame # Absent) =>
        IF frame.threw THEN frame.drawImage = <<>>
        ELSE /\ Len(frame.drawImage) = 1
             /\ frame.drawImage[1].image = renderer.cache[1].canvas
             /\ frame.drawImage[1].x + OriginIn(frame.drawImage[1].image)[1] = frame.x
             /\ frame.drawImage[1].y + OriginIn(frame.drawImage[1].image)[2] = frame.y

C16_Witness ==
    /\ Drawn
    /\ frame.x = 7
    /\ frame.drawImage[1].image.composite # <<>>
    /\ frame.drawImage[1].x < frame.x
    /\ frame.drawImage[1].y < frame.y

\* the layout of the text for attributes of the given values
WrappedFor(a) ==
    wrapText([context |-> CanvasContext, text |-> a.text, wrapWidth |-> a.wrapWidth,
              fontSize |-> a.fontSize,
              lineHeight |-> IF a.lineHeight = Undefined THEN a.fontSize ELSE a.lineHeight])

\* C17: with a shadow color of alpha 0 the bitmap is left + right wide and
\* top + bottom high, grown on every side by the outline width rounded up and by
\* nothing else, the offset is (left, top) with that margin, and one canvas is used.
C17_NoShadowExtents ==
    (Built /\ frame.attributes.shadowColor.a = 0) =>
        LET a == frame.attributes
            w == WrappedFor(a)
            outline == Ceil(a.outlineWidth)
            image == frame.drawImage[1].image
        IN  /\ image.width = w.left + w.right + 2 * outline
            /\ image.height = w.top + w.bottom + 2 * outline
            /\ frame.x - frame.drawImage[1].x = w.left + outline
            /\ frame.y - frame.drawImage[1].y = w.top + outline
            /\ frame.canvases = 1
            /\ image.composite = <<>>

C17_Witness ==
    /\ Built
    /\ frame.attributes.shadowColor.a = 0
    /\ frame.attributes.shadowBlurRadius = 3
    /\ frame.attributes.shadowOffset.x = 5
    /\ frame.attributes.outlineWidth = 3
    /\ Len(frame.drawImage[1].image.layer.strokeText) = 2

\* the margins of the shadow composite around the bitmap of the text
ShadowMarginsOf(image) ==
    [left |-> image.composite[1].translate[1],
     top |-> image.composite[1].translate[2],
     right |-> image.width - image.layer.width - image.composite[1].translate[1],
     bottom |-> image.height - image.layer.height - image.composite[1].translate[2]]

\* the part of C18 that does not depend on the direction of the offset
ShadowInflates ==
    LET a == frame.attributes
        w == WrappedFor(a)
        outline == Ceil(a.outlineWidth)
        image == frame.drawImage[1].image
        margin == ShadowMarginsOf(image)
    IN  /\ frame.canvases = 2
        /\ image.layer.width = w.left + w.right + 2 * outline
        /\ image.layer.height = w.top + w.bottom + 2 * outline
        /\ margin.left >= 0 /\ margin.right >= 0 /\ margin.top >= 0 /\ margin.bottom >= 0
        /\ image.width >= image.layer.width
        /\ image.height >= image.layer.height
        /\ frame.x - frame.drawImage[1].x = w.left + outline + margin.left
        /\ frame.y - frame.drawImage[1].y = w.top + outline + margin.top
        /\ a.shadowOffset.x = 0 => margin.left = margin.right
        /\ a.shadowOffset.y = 0 => margin.top = margin.bottom

C19_StrokeStyle ==
    Built =>
        LET a == frame.attributes
            properties == frame.drawImage[1].image.layer.properties
        IN  /\ properties.lineWidth = 2 * a.outlineWidth
            /\ a.outlineWidth = 0 => properties.strokeStyle = "transparent"
            /\ a.outlineWidth # 0 => properties.strokeStyle = ColorToString(a.outlineColor)

C19_Witness ==
    /\ Built
    /\ frame.attributes.outlineWidth = 0
    /\ frame.attributes.outlineColor = Red
    /\ frame.drawImage[1].image.layer.properties.strokeStyle = "transparent"

\* C20: a render whose rebuild cannot obtain a 2D context throws, calls no
\* drawImage and leaves the renderer without a cache; the render after it
\* attempts the rebuild again and, when it succeeds, draws the bitmap built from
\* the attributes as they are then.
C20_FailedBuildRetried ==
    (pc = "text" /\ frame # Absent) =>
        /\ frame.threw =>
            /\ frame.drawImage = <<>>
            /\ renderer.cache = <<>>
            /\ frame.canvases >= 1
        /\ frame.retry =>
            /\ frame.canvases >= 1
            /\ ~frame.threw =>
                /\ frame.wrapTextCalls = 1
                /\ frame.drawImage[1].image = FreshCache(frame.attributes).canvas

C20_Witness ==
    /\ Drawn
    /\ frame.retry
    /\ changes = 0
    /\ frame.canvases = 2
    /\ renderer.cache # <<>>

\* C21: a render that throws leaves the cache the Text held before the render
\* in place: the Text still holds the old bitmap after the failure.
C21_OldCacheKept ==
    [][ (pc = "text" /\ changes' = changes /\ renderer.cache # <<>> /\ frame'.threw) =>
            renderer'.cache = renderer.cache ]_vars

\* the attribute values a renderer was constructed with
SnapshotOf(r, h) == [Resolve(r, h) EXCEPT !.cache = <<>>]

\* C22: a TextRenderer instance keeps the snapshot values it was constructed
\* with and, once its cache is populated, keeps that bitmap and offset and
\* never builds again; a renderer that replaces it starts with an empty cache;
\* and a populated renderer stays the Text's renderer at a render at which the
\* attribute values equal those the bitmap was built and last drawn for.
C22_OneCachePerInstance ==
    [][ pc = "text" =>
        /\ renderer'.id = renderer.id =>
            /\ SnapshotOf(renderer', heap') = SnapshotOf(renderer, heap)
            /\ renderer.cache # <<>> =>
                /\ renderer'.cache = renderer.cache
                /\ changes' = changes => frame'.wrapTextCalls = 0
        /\ renderer'.id # renderer.id =>
            (renderer'.cache = <<>> \/ frame'.wrapTextCalls = 1)
        /\ (changes' = changes /\ renderer.cache # <<>>
                /\ frame.attributes = Resolve(node, heap)) =>
            renderer' = renderer ]_vars

-----------------------------------------------------------------------------
(* Further properties of wrapText *)

HasWhitespace(s) == \E i \in 1..Len(s) : s[i] \in Whitespace

Overflows(line) == NumGt(TextWidth(options, line), options.wrapWidth)

\* C23: every line of the result is at most wrapWidth wide or is a single
\* word: a line wider than wrapWidth contains no whitespace.
C23_OverflowOnlySingleWord ==
    Done => \A k \in 1..Len(wrapped.lines) :
                Overflows(wrapped.lines[k]) => ~HasWhitespace(wrapped.lines[k])

C23_Witness ==
    /\ Done
    /\ options.wrapWidth = 14
    /\ Len(wrapped.lines) = 2
    /\ Overflows(wrapped.lines[2])
    /\ HasWhitespace(options.text)
    /\ ~Overflows(wrapped.lines[1])

\* C24: the non-empty words of the lines, read in order, are the non-empty
\* words of the text, in order.
C24_WordsPreserved ==
    Done => WordSeq(wrapped.lines) = WordSeq(<<options.text>>)

C24_Witness ==
    /\ Done
    /\ options.wrapWidth = 14
    /\ Len(wrapped.lines) = 3
    /\ Len(WordSeq(<<options.text>>)) = 3
    /\ Cardinality(Newlines(options.text)) = 0

\* C25: a paragraph that has a character other than whitespace gives no
\* empty line: an empty line comes from an empty paragraph only.
C25_NoEmptyLineFromWords ==
    Done => \A i \in 1..Len(groups) :
                NonWs(ParagraphAt(options.text, i)) # <<>> =>
                    \A k \in 1..Len(groups[i]) : groups[i][k] # <<>>

-----------------------------------------------------------------------------
(* Further properties of the renderer *)

\* C26: a render (that does not throw, and does not follow one that threw)
\* rebuilds the bitmap exactly when it is the first render or the attribute
\* values differ from those at the previous render.
C26_RebuildIffChanged ==
    [][ (pc = "text" /\ changes' = changes /\ ~frame'.threw
            /\ (frame # Absent => ~frame.threw)) =>
        ((frame'.wrapTextCalls = 1) <=>
            (IF frame = Absent THEN TRUE ELSE frame.attributes # Resolve(node, heap))) ]_vars

\* C27: with a shadow and a blur radius >= 0 the left and top margins are at
\* least max(0, 2 * blur - offset) and the right and bottom margins at least
\* max(0, 2 * blur + offset), so the bitmap contains the box of the text and
\* that box displaced by the offset and grown by 2 * blur on every side; the
\* box of the text is composited at the left and top margin, by which the
\* recorded offset exceeds that of the text in its box.
C27_ShadowNotClipped ==
    (Built /\ frame.attributes.shadowColor.a # 0 /\ frame.attributes.shadowBlurRadius >= 0) =>
        LET a == frame.attributes
            image == frame.drawImage[1].image
            margin == ShadowMarginsOf(image)
            blur2 == 2 * a.shadowBlurRadius
        IN  /\ margin.left >= Max(0, blur2 - a.shadowOffset.x)
            /\ margin.top >= Max(0, blur2 - a.shadowOffset.y)
            /\ margin.right >= Max(0, blur2 + a.shadowOffset.x)
            /\ margin.bottom >= Max(0, blur2 + a.shadowOffset.y)
            \* the box of the text, [0, layer.width] x [0, layer.height]
            /\ -margin.left <= 0 /\ image.layer.width <= image.layer.width + margin.right
            /\ -margin.top <= 0 /\ image.layer.height <= image.layer.height + margin.bottom
            \* the box of the shadow
            /\ -margin.left <= a.shadowOffset.x - blur2
            /\ image.layer.width + a.shadowOffset.x + blur2 <= image.width - margin.left
            /\ -margin.top <= a.shadowOffset.y - blur2
            /\ image.layer.height + a.shadowOffset.y + blur2 <= image.height - margin.top
            /\ image.composite[1].translate = <<margin.left, margin.top>>
            /\ frame.x - frame.drawImage[1].x = image.layer.translate[1] + margin.left
            /\ frame.y - frame.drawImage[1].y = image.layer.translate[2] + margin.top

C27_Witness ==
    /\ Built
    /\ frame.attributes.shadowColor.a # 0
    /\ frame.attributes.shadowBlurRadius = 3
    /\ frame.attributes.shadowOffset = [x |-> 5, y |-> -3]
    /\ ShadowMarginsOf(frame.drawImage[1].image) =
            [left |-> 2, top |-> 10, right |-> 12, bottom |-> 4]

====
